---- MODULE Spec2Model ----
(***************************************************************************)
(* Smart Playlist Curator: the chat-history lifecycle of agent.py (the     *)
(* chat() function and the CLI loop of its __main__ block) and the         *)
(* Streamlit submit / Clear History handlers of app.py.                    *)
(*                                                                         *)
(* Python strings are TLA+ strings; a character of s is SubSeq(s, i, i).   *)
(* A Python value that reaches a truthiness or isinstance test is a record *)
(* [t |-> its type, s |-> str(value)].                                     *)
(***************************************************************************)
EXTENDS Integers, Sequences, FiniteSets, TLC

VARIABLES
    chat_history,   \* agent.py:125, the module-level list of (role, content) tuples
    appended,       \* history: every turn appended since chat_history was last empty
    turn_session,   \* history: for each entry of chat_history, who submitted it
    last_call,      \* record of the most recent chat() call
    last_op,        \* the operation the last step performed
    cleared,        \* history: who cleared and has made no chat() call since
    trimmed,        \* history: some chat() call has rebound chat_history at agent.py:275
    cli_running,    \* the CLI while-loop has not reached a break
    cli_line,       \* the raw line the CLI loop read last
    cli_chats,      \* the chat() calls made for cli_line: argument, agent invoked
    messages,       \* app.py: st.session_state.messages of each UI session
    startup,        \* the program being started: environment, position, exit status
    tool_call,      \* the most recent call of a helper tool: name, arguments, result
    lists,          \* overlapping calls: the list objects chat_history has named
    chat_history_ref, \* overlapping calls: the list object chat_history names now
    threads         \* overlapping calls: each thread's position in chat() and its locals

\* the state of one conversation
chat_vars == <<chat_history, appended, turn_session, last_call, last_op, cleared, trimmed,
               cli_running, cli_line, cli_chats, messages>>

\* the state of the steps of overlapping chat() calls
race_vars == <<lists, chat_history_ref, threads>>

vars == <<chat_history, appended, turn_session, last_call, last_op, cleared, trimmed,
          cli_running, cli_line, cli_chats, messages,
          startup, tool_call, lists, chat_history_ref, threads>>

-----------------------------------------------------------------------------
(* Bounds of the model *)

\* direct chat() calls are made while the transcript holds fewer exchanges
MaxCalls == 2
\* the CLI of SpecCli reads lines while fewer exchanges have been appended
MaxCliExchanges == 2
\* the CLI of SpecLong reads lines while fewer turns have been appended
MaxAppended == 26
\* UI sessions served by the one process
NumSessions == 2
\* a UI session submits while it shows fewer exchanges
MaxUiExchanges == 3

-----------------------------------------------------------------------------
(* Python string operations *)

Char(s, i) == SubSeq(s, i, i)

\* str.lower() on one character
LowerChar(c) ==
    CASE c = "A" -> "a" [] c = "B" -> "b" [] c = "C" -> "c" [] c = "D" -> "d"
      [] c = "E" -> "e" [] c = "F" -> "f" [] c = "G" -> "g" [] c = "H" -> "h"
      [] c = "I" -> "i" [] c = "J" -> "j" [] c = "K" -> "k" [] c = "L" -> "l"
      [] c = "M" -> "m" [] c = "N" -> "n" [] c = "O" -> "o" [] c = "P" -> "p"
      [] c = "Q" -> "q" [] c = "R" -> "r" [] c = "S" -> "s" [] c = "T" -> "t"
      [] c = "U" -> "u" [] c = "V" -> "v" [] c = "W" -> "w" [] c = "X" -> "x"
      [] c = "Y" -> "y" [] c = "Z" -> "z"
      [] OTHER -> c

RECURSIVE Lower(_)
Lower(s) == IF s = "" THEN "" ELSE LowerChar(Char(s, 1)) \o Lower(Tail(s))

\* the characters str.strip() removes
Whitespace == {" ", "\t", "\n", "\r", "\f"}

RECURSIVE LStrip(_)
LStrip(s) == IF s # "" /\ Char(s, 1) \in Whitespace THEN LStrip(Tail(s)) ELSE s

RECURSIVE RStrip(_)
RStrip(s) ==
    IF s # "" /\ Char(s, Len(s)) \in Whitespace
    THEN RStrip(SubSeq(s, 1, Len(s) - 1))
    ELSE s

Strip(s) == RStrip(LStrip(s))

-----------------------------------------------------------------------------
(* Python values *)

PyNone == [t |-> "None", s |-> "None"]
PyStr(x) == [t |-> "str", s |-> x]
PyList(x) == [t |-> "list", s |-> x]

\* bool(v)
Truthy(v) ==
    CASE v.t = "None" -> FALSE
      [] v.t = "str" -> v.s # ""
      [] v.t = "list" -> v.s # "[]"

\* isinstance(v, str)
IsStr(v) == v.t = "str"

-----------------------------------------------------------------------------
(* What agent_executor.invoke(input_data) can do *)

ReturnsNone == [kind |-> "none", has_output |-> FALSE, output |-> PyNone, text |-> "None"]
\* a dict without the key 'output'
ReturnsDict(txt) ==
    [kind |-> "dict", has_output |-> FALSE, output |-> PyNone, text |-> txt]
\* a dict with 'output': v
ReturnsOutput(v) ==
    [kind |-> "dict", has_output |-> TRUE, output |-> v,
     text |-> "{'output': " \o v.s \o "}"]
\* an object with an attribute output = v whose str() is txt
ReturnsObject(v, txt) ==
    [kind |-> "object", has_output |-> TRUE, output |-> v, text |-> txt]
\* any other value (no attribute output) whose str() is txt
ReturnsOther(txt) ==
    [kind |-> "other", has_output |-> FALSE, output |-> PyNone, text |-> txt]
\* raise Exception(msg)
RaisesException(msg) ==
    [kind |-> "exception", has_output |-> FALSE, output |-> PyNone, text |-> msg]
\* KeyboardInterrupt (a BaseException that is not an Exception), as caught at agent.py:356
RaisesInterrupt ==
    [kind |-> "interrupt", has_output |-> FALSE, output |-> PyNone, text |-> ""]

-----------------------------------------------------------------------------
(* chat(), agent.py:210-282 *)

MaxHistory == 20

FallbackNone == "No response was generated. Please try again."
FallbackDict == "I didn't get a proper response. Could you rephrase your question?"
FallbackTrouble == "I'm having trouble understanding. Could you rephrase your question?"
FallbackNotSure == "I'm not sure how to respond to that. Could you rephrase?"
Sentinel == "No response generated"
OuterErrorText == "I'm sorry, I encountered an error processing your request. Please try again."

\* mutant: the message of the exception left out of the reply
ErrorOutputNoMessage(msg) ==
    "I encountered an error. Could you please rephrase your question?"

\* agent.py:266
ErrorOutput(msg) ==
    "I encountered an error: " \o msg \o ". Could you please rephrase your question?"

\* mutant: an assistant turn is kept whatever its content
FormatEntryKeepsEmpty(msg) ==
    IF Len(msg) = 2
    THEN IF msg[1] = "human"
         THEN <<[type |-> "HumanMessage", content |-> msg[2]]>>
         ELSE IF msg[1] = "assistant"
              THEN <<[type |-> "AIMessage", content |-> msg[2]]>>
              ELSE <<>>
    ELSE <<>>

\* agent.py:229-236, one entry of the transcript
FormatEntry(msg) ==
    IF Len(msg) = 2
    THEN IF msg[1] = "human"
         THEN <<[type |-> "HumanMessage", content |-> msg[2]]>>
         ELSE IF msg[1] = "assistant" /\ msg[2] # ""
              THEN <<[type |-> "AIMessage", content |-> msg[2]]>>
              ELSE <<>>
    ELSE <<>>

\* agent.py:228-236
RECURSIVE FormatHistory(_)
FormatHistory(h) ==
    IF h = <<>> THEN <<>> ELSE FormatEntry(Head(h)) \o FormatHistory(Tail(h))

\* who submitted each message of FormatHistory(h), ts being parallel to h
RECURSIVE FormatSessions(_, _)
FormatSessions(h, ts) ==
    IF h = <<>> THEN <<>>
    ELSE (IF FormatEntry(Head(h)) = <<>> THEN <<>> ELSE <<Head(ts)>>)
         \o FormatSessions(Tail(h), Tail(ts))

\* mutant: the empty-output fallback of agent.py:255-256 left out
ExtractedNoDictFallback(r) ==
    CASE r.kind = "none" -> PyStr(FallbackNone)
      [] r.kind = "dict" -> IF r.has_output THEN r.output ELSE PyStr("")
      [] r.kind = "object" /\ r.output # PyNone -> PyStr(r.output.s)
      [] OTHER -> PyStr(r.text)

\* mutant: a None result stringified like any other value
ExtractedNoneAsText(r) ==
    CASE r.kind = "dict" ->
            LET o == IF r.has_output THEN r.output ELSE PyStr("")
            IN  IF ~Truthy(o) THEN PyStr(FallbackDict) ELSE o
      [] r.kind = "object" /\ r.output # PyNone -> PyStr(r.output.s)
      [] OTHER -> PyStr(r.text)

\* agent.py:251-260, the value bound to output before the check of line 262
Extracted(r) ==
    CASE r.kind = "none" -> PyStr(FallbackNone)
      [] r.kind = "dict" ->
            LET o == IF r.has_output THEN r.output ELSE PyStr("")
            IN  IF ~Truthy(o) THEN PyStr(FallbackDict) ELSE o
      [] r.kind = "object" /\ r.output # PyNone -> PyStr(r.output.s)
      [] OTHER -> PyStr(r.text)

\* mutant: the reply to an exception is the string that is never recorded
NormalizeErrorUnrecorded(r) ==
    IF r.kind = "exception"
    THEN Sentinel
    ELSE LET o == Extracted(r)
         IN  IF ~Truthy(o) \/ ~IsStr(o) THEN FallbackTrouble ELSE o.s

\* agent.py:248-266, output after the inner try statement
Normalize(r) ==
    IF r.kind = "exception"
    THEN ErrorOutput(r.text)
    ELSE LET o == Extracted(r)
         IN  IF ~Truthy(o) \/ ~IsStr(o) THEN FallbackTrouble ELSE o.s

\* mutant: the sentinel comparison of agent.py:269 left out
ShouldRecordNoSentinel(output) == output # ""

\* agent.py:269
ShouldRecord(output) == output # "" /\ output # Sentinel

\* mutant: only the assistant turn is appended
RecordAssistantOnly(h, user_input, output) == Append(h, <<"assistant", output>>)

\* agent.py:270-271
Record(h, user_input, output) ==
    Append(Append(h, <<"human", user_input>>), <<"assistant", output>>)

\* mutant: the cap of agent.py:274-275 never applied
TrimNever(h) == h

\* mutant: the slice keeps the oldest entries, h[:20]
TrimKeepOldest(h) == IF Len(h) > MaxHistory THEN SubSeq(h, 1, MaxHistory) ELSE h

\* agent.py:274-275
Trim(h) ==
    IF Len(h) > MaxHistory THEN SubSeq(h, Len(h) - MaxHistory + 1, Len(h)) ELSE h

\* agent.py:277
Returned(output) == IF output # "" THEN output ELSE FallbackNotSure

\* The record of a call that has not happened
NoCall ==
    [session |-> -1, user_input |-> "", agent_executor |-> "none",
     response |-> ReturnsNone, formatted_history |-> <<>>, history_sessions |-> <<>>,
     invoked |-> FALSE, output |-> "", recorded |-> FALSE,
     returned |-> "", raised |-> "", outer_error |-> FALSE, after_clear |-> FALSE]

\* agent.py:238-239: with agent_executor None, create_agent() runs and can raise
CreateFails(agent_executor, created) == agent_executor = "None" /\ created = "raises"

\* chat(user_input, agent_executor) called by session; created is what create_agent()
\* does if it is called, r what agent_executor.invoke does.
ChatCall(session, user_input, agent_executor, created, r) ==
    LET formatted == FormatHistory(chat_history)
        base == [NoCall EXCEPT !.session = session, !.user_input = user_input,
                    !.agent_executor = agent_executor, !.response = r,
                    !.formatted_history = formatted,
                    !.after_clear = (session \in cleared),
                    !.history_sessions = FormatSessions(chat_history, turn_session)]
    IN
    /\ UNCHANGED <<startup, tool_call, race_vars>>
    /\ cleared' = cleared \ {session}
    /\ IF CreateFails(agent_executor, created)
       THEN \* agent.py:279-282, the outer handler
            /\ last_call' = [base EXCEPT !.outer_error = TRUE, !.returned = OuterErrorText]
            /\ UNCHANGED <<chat_history, appended, turn_session, trimmed>>
       ELSE IF r.kind = "interrupt"
       THEN \* neither except Exception clause catches it
            /\ last_call' = [base EXCEPT !.invoked = TRUE, !.raised = "KeyboardInterrupt"]
            /\ UNCHANGED <<chat_history, appended, turn_session, trimmed>>
       ELSE LET output == Normalize(r)
                rec == ShouldRecord(output)
                updated == IF rec THEN Record(chat_history, user_input, output)
                           ELSE chat_history
            IN  /\ trimmed' = (trimmed \/ Len(updated) > MaxHistory)
                /\ last_call' = [base EXCEPT !.invoked = TRUE, !.output = output,
                                    !.recorded = rec, !.returned = Returned(output)]
                /\ IF rec
                   THEN /\ chat_history' = Trim(Record(chat_history, user_input, output))
                        /\ appended' = appended \o <<<<"human", user_input>>,
                                                      <<"assistant", output>>>>
                        /\ turn_session' =
                              Trim(Append(Append(turn_session, session), session))
                   ELSE /\ chat_history' = Trim(chat_history)
                        /\ UNCHANGED <<appended, turn_session>>

-----------------------------------------------------------------------------
(* Initial state: the module has been imported, nothing has been said *)

\* UI sessions; 0 is the CLI user or the direct caller of chat()
Sessions == 1..NumSessions

\* the program is past its startup: keys present, agent built
Started ==
    [program |-> "any", groq |-> TRUE, tavily |-> TRUE, pc |-> "started",
     exit_status |-> -1, create_called |-> TRUE, agent_built |-> TRUE]

\* no helper tool has been called
NoToolCall ==
    [tool |-> "none", args |-> <<>>, result |-> "", caught |-> FALSE, raised |-> FALSE]

\* no chat() call is in progress
NoRace ==
    /\ lists = <<>>
    /\ chat_history_ref = 0
    /\ threads = <<>>

\* an empty transcript, nothing said yet
InitConversation ==
    /\ chat_history = <<>>
    /\ appended = <<>>
    /\ turn_session = <<>>
    /\ last_call = NoCall
    /\ last_op = "init"
    /\ cleared = {}
    /\ trimmed = FALSE
    /\ cli_line = ""
    /\ cli_chats = <<>>
    /\ messages = [s \in Sessions |-> <<>>]

Init ==
    /\ InitConversation
    /\ cli_running = TRUE
    /\ startup = Started
    /\ tool_call = NoToolCall
    /\ NoRace

-----------------------------------------------------------------------------
(* chat() called directly by an importer of agent.py *)

UserInputs == {"play jazz", "No response generated"}

Responses ==
    { ReturnsNone,
      ReturnsDict("{}"),
      ReturnsDict("{'input': 'q'}"),
      ReturnsOutput(PyStr("")),
      ReturnsOutput(PyNone),
      ReturnsOutput(PyStr("X")),
      ReturnsOutput(PyStr(Sentinel)),
      ReturnsOutput(PyList("['X']")),
      ReturnsOutput(PyList("[]")),
      ReturnsObject(PyStr("Y"), "<result>"),
      ReturnsObject(PyStr(""), "<result>"),
      ReturnsObject(PyNone, "<result>"),
      ReturnsOther(""),
      ReturnsOther("plain"),
      RaisesException("boom"),
      RaisesException(""),
      RaisesInterrupt }

Chat ==
    /\ Len(chat_history) < 2 * MaxCalls
    /\ \E user_input \in UserInputs, agent_executor \in {"executor", "None"},
          created \in {"ok", "raises"}, r \in Responses :
          /\ agent_executor = "executor" => created = "ok"
          /\ ChatCall(0, user_input, agent_executor, created, r)
    /\ last_op' = "chat"
    /\ UNCHANGED <<cli_running, cli_line, cli_chats, messages>>

Next == Chat

Spec == Init /\ [][Next]_vars

-----------------------------------------------------------------------------
(* The CLI loop, agent.py:323-359; one action per line read *)

\* mutant: the comparison made without lower()
IsQuitExact(user_input) == user_input \in {"quit", "exit", "q"}

\* agent.py:333
IsQuit(user_input) == Lower(user_input) \in {"quit", "exit", "q"}
\* agent.py:337
IsHistory(user_input) == Lower(user_input) = "history"
\* mutant: the comparison made without lower()
IsClearExact(user_input) == user_input = "clear"

\* agent.py:348
IsClear(user_input) == Lower(user_input) = "clear"

\* The part of an iteration that every branch shares
CliRead(line, op) ==
    /\ cli_running
    /\ cli_line' = line
    /\ last_op' = op
    /\ UNCHANGED <<messages, startup, tool_call, race_vars>>

\* agent.py:326-328, input() raises EOFError or KeyboardInterrupt
CliEof ==
    /\ CliRead("", "cli_eof")
    /\ cli_running' = FALSE
    /\ cli_chats' = <<>>
    /\ UNCHANGED <<chat_history, appended, turn_session, last_call, cleared, trimmed>>

\* agent.py:330-331
CliEmpty(line) ==
    /\ Strip(line) = ""
    /\ CliRead(line, "cli_empty")
    /\ cli_chats' = <<>>
    /\ UNCHANGED <<chat_history, appended, turn_session, last_call, cleared, trimmed, cli_running>>

\* agent.py:333-335
CliQuit(line) ==
    /\ Strip(line) # ""
    /\ IsQuit(Strip(line))
    /\ CliRead(line, "cli_quit")
    /\ cli_running' = FALSE
    /\ cli_chats' = <<>>
    /\ UNCHANGED <<chat_history, appended, turn_session, last_call, cleared, trimmed>>

\* agent.py:337-346
CliHistory(line) ==
    /\ Strip(line) # ""
    /\ ~IsQuit(Strip(line))
    /\ IsHistory(Strip(line))
    /\ CliRead(line, "cli_history")
    /\ cli_chats' = <<>>
    /\ UNCHANGED <<chat_history, appended, turn_session, last_call, cleared, trimmed, cli_running>>

\* agent.py:348-351
CliClear(line) ==
    /\ Strip(line) # ""
    /\ ~IsQuit(Strip(line))
    /\ ~IsHistory(Strip(line))
    /\ IsClear(Strip(line))
    /\ CliRead(line, "cli_clear")
    /\ chat_history' = <<>>
    /\ appended' = <<>>
    /\ turn_session' = <<>>
    /\ cleared' = {0}
    /\ cli_chats' = <<>>
    /\ UNCHANGED <<last_call, trimmed, cli_running>>

\* agent.py:353-359
CliChat(line, r) ==
    /\ Strip(line) # ""
    /\ ~IsQuit(Strip(line))
    /\ ~IsHistory(Strip(line))
    /\ ~IsClear(Strip(line))
    /\ CliRead(line, "cli_chat")
    /\ ChatCall(0, Strip(line), "executor", "ok", r)
    /\ cli_chats' = <<[user_input |-> Strip(line), invoked |-> last_call'.invoked]>>
    /\ UNCHANGED cli_running

CliLines ==
    { "", "  ", "\t", "quit", " Exit ", "Q", "history", " HISTORY", "clear", "Clear ",
      " play jazz ", "Clearly", "quit it" }

CliResponses == { ReturnsOutput(PyStr("X")), RaisesException("boom"), RaisesInterrupt }

CliControl ==
    \E line \in CliLines :
        CliEmpty(line) \/ CliQuit(line) \/ CliHistory(line) \/ CliClear(line)

CliTalk ==
    /\ Len(appended) < 2 * MaxCliExchanges
    /\ \E line \in CliLines, r \in CliResponses : CliChat(line, r)

NextCli == CliEof \/ CliControl \/ CliTalk

SpecCli == Init /\ [][NextCli]_vars

-----------------------------------------------------------------------------
(* A long CLI conversation *)

LongLines == { "play", "clear", " CLEAR " }

LongResponses ==
    { ReturnsOutput(PyStr("X")), ReturnsOutput(PyStr(Sentinel)), RaisesException("boom") }

LongClear == \E line \in LongLines : CliClear(line)

LongTalk ==
    /\ Len(appended) < MaxAppended
    /\ \E line \in LongLines, r \in LongResponses : CliChat(line, r)

NextLong == LongClear \/ LongTalk

SpecLong == Init /\ [][NextLong]_vars

-----------------------------------------------------------------------------
(* The Streamlit page, app.py; every session runs in the one server process *)
(* and all of them import the same agent module.                            *)

Placeholder == "Creating your perfect playlist..."

\* app.py:414-418
SetLastAssistant(msgs, response) ==
    LET idx == {i \in 1..Len(msgs) : msgs[i].role = "assistant"}
    IN  IF idx = {} THEN msgs
        ELSE LET last == CHOOSE i \in idx : \A j \in idx : j <= i
             IN  [msgs EXCEPT ![last].content = response]

\* app.py:388-441, the form was submitted with user_input in session s
UiSubmit(s, user_input, r) ==
    LET text == Strip(user_input)
        shown == Append(Append(messages[s], [role |-> "user", content |-> text]),
                        [role |-> "assistant", content |-> Placeholder])
    IN  /\ text # ""
        /\ ChatCall(s, text, "executor", "ok", r)
        /\ messages' = [messages EXCEPT ![s] = SetLastAssistant(shown, last_call'.returned)]
        /\ last_op' = "ui_submit"
        /\ UNCHANGED <<cli_running, cli_line, cli_chats>>

\* app.py:479-481, the Clear History button of session s
UiClear(s) ==
    /\ messages' = [messages EXCEPT ![s] = <<>>]
    /\ cleared' = cleared \cup {s}
    /\ last_op' = "ui_clear"
    /\ UNCHANGED <<chat_history, appended, turn_session, last_call, trimmed,
                   cli_running, cli_line, cli_chats, startup, tool_call, race_vars>>

UiInputs == { " mix ", "  " }

UiResponses == { ReturnsOutput(PyStr("X")), RaisesException("boom") }

Submit ==
    /\ Len(appended) < 2 * MaxUiExchanges
    /\ \E s \in Sessions, user_input \in UiInputs, r \in UiResponses :
          UiSubmit(s, user_input, r)

ClearHistory == \E s \in Sessions : UiClear(s)

NextUI == Submit \/ ClearHistory

SpecUI == Init /\ [][NextUI]_vars

-----------------------------------------------------------------------------
(* chat() called on a transcript that another importer of agent.py has filled:
   chat_history is a public module-level list, agent.py:125 *)

MaxEntries == 3

\* tuples that can sit in the list: the two kinds chat() records, an assistant turn
\* without content, an unknown role, and tuples that are not pairs
TranscriptEntries ==
    { <<"human", "hi">>, <<"assistant", "Y">>, <<"assistant", "">>,
      <<"system", "s">>, <<"human">>, <<"assistant", "Y", "z">> }

Transcripts == UNION { [1..n -> TranscriptEntries] : n \in 0..MaxEntries }

InitFormat ==
    /\ \E h \in Transcripts :
          /\ chat_history = h
          /\ appended = h
          /\ turn_session = [i \in 1..Len(h) |-> 0]
    /\ last_call = NoCall
    /\ last_op = "init"
    /\ cleared = {}
    /\ trimmed = FALSE
    /\ cli_running = FALSE
    /\ cli_line = ""
    /\ cli_chats = <<>>
    /\ messages = [s \in Sessions |-> <<>>]
    /\ startup = Started
    /\ tool_call = NoToolCall
    /\ NoRace

FormatResponses ==
    {ReturnsOutput(PyStr("X")), ReturnsOutput(PyStr("")), RaisesException("boom")}

\* chat() is called until an exchange has been recorded behind the drawn entries
FormatChat ==
    /\ Len(chat_history) <= MaxEntries
    /\ \E agent_executor \in {"executor", "None"}, created \in {"ok", "raises"},
          r \in FormatResponses :
          /\ agent_executor = "executor" => created = "ok"
          /\ ChatCall(0, "next", agent_executor, created, r)
    /\ last_op' = "chat"
    /\ UNCHANGED <<cli_running, cli_line, cli_chats, messages>>

NextFormat == FormatChat

SpecFormat == InitFormat /\ [][NextFormat]_vars

-----------------------------------------------------------------------------
(* Startup: agent.py:288-321 run as the CLI program, app.py:229-308 as the page *)

\* os.getenv(name) is None or empty
KeyMissing(present) == ~present

Programs == {"cli", "ui"}

InitStart ==
    /\ InitConversation
    /\ cli_running = FALSE
    /\ tool_call = NoToolCall
    /\ NoRace
    /\ \E program \in Programs, groq \in BOOLEAN, tavily \in BOOLEAN :
          startup = [program |-> program, groq |-> groq, tavily |-> tavily,
                     pc |-> IF program = "cli" THEN "check_groq" ELSE "page",
                     exit_status |-> -1, create_called |-> FALSE,
                     agent_built |-> FALSE]

\* sys.exit(1)
Exit1(st) == [st EXCEPT !.pc = "exited", !.exit_status = 1]

\* agent.py:295-300
CliCheckGroq ==
    /\ startup.pc = "check_groq"
    /\ startup' = IF KeyMissing(startup.groq) THEN Exit1(startup)
                  ELSE [startup EXCEPT !.pc = "check_tavily"]
    /\ UNCHANGED <<chat_vars, tool_call, race_vars>>

\* agent.py:302-306
CliCheckTavily ==
    /\ startup.pc = "check_tavily"
    /\ startup' = IF KeyMissing(startup.tavily) THEN Exit1(startup)
                  ELSE [startup EXCEPT !.pc = "create"]
    /\ UNCHANGED <<chat_vars, tool_call, race_vars>>

\* agent.py:310-321: create_agent() returns an executor or raises
CliCreateAgent ==
    /\ startup.pc = "create"
    /\ \E created \in {"ok", "raises"} :
          IF created = "ok"
          THEN /\ startup' = [startup EXCEPT !.pc = "loop", !.create_called = TRUE,
                                 !.agent_built = TRUE]
               /\ cli_running' = TRUE
          ELSE /\ startup' = Exit1([startup EXCEPT !.create_called = TRUE])
               /\ UNCHANGED cli_running
    /\ UNCHANGED <<chat_history, appended, turn_session, last_call, last_op, cleared,
                   trimmed, cli_line, cli_chats, messages, tool_call, race_vars>>

\* app.py:297-308 with ensure_agent_ready, app.py:210-224: the keys are not looked
\* at; create_agent() runs, and if it raises the script run is stopped
UiInitAgent ==
    /\ startup.pc = "page"
    /\ \E created \in {"ok", "raises"} :
          startup' = IF created = "ok"
                     THEN [startup EXCEPT !.pc = "ready", !.create_called = TRUE,
                              !.agent_built = TRUE]
                     ELSE [startup EXCEPT !.pc = "stopped", !.create_called = TRUE]
    /\ UNCHANGED <<chat_vars, tool_call, race_vars>>

\* the browser reloads the page after st.stop()
UiRerun ==
    /\ startup.pc = "stopped"
    /\ startup' = [startup EXCEPT !.pc = "page"]
    /\ UNCHANGED <<chat_vars, tool_call, race_vars>>

\* agent.py:323-359 once the loop has been entered
CliLoop == startup.pc = "loop" /\ NextCli

\* app.py:354-481 once st.session_state.agent_ready is set
UiPage == startup.pc = "ready" /\ NextUI

NextStart ==
    \/ CliCheckGroq \/ CliCheckTavily \/ CliCreateAgent \/ CliLoop
    \/ UiInitAgent \/ UiRerun \/ UiPage

SpecStart == InitStart /\ [][NextStart]_vars

-----------------------------------------------------------------------------
(* The helper tools, agent.py:25-119 *)

MaxSongs == 20
MaxAvgHalves == 8
MaxMinutes == 60

\* argument values: None, a string, an integer, a float. A finite float is held
\* as a whole number n of half minutes (3.5 is n = 7), so the arithmetic is exact.
ArgNone == [t |-> "None", s |-> "None", n |-> 0]
ArgStr(x) == [t |-> "str", s |-> x, n |-> 0]
ArgInt(i) == [t |-> "int", s |-> "", n |-> i]
ArgFloat(h) == [t |-> "float", s |-> "", n |-> h]
ArgInf == [t |-> "float", s |-> "inf", n |-> 0]
ArgNan == [t |-> "float", s |-> "nan", n |-> 0]

\* type(v).__name__
TypeName(v) == IF v.t = "None" THEN "NoneType" ELSE v.t

IsNumber(v) == v.t \in {"int", "float"}

Finite(v) == IsNumber(v) /\ v.s = ""

\* twice the value of a finite number
Halves(v) == IF v.t = "int" THEN 2 * v.n ELSE v.n

Abs(i) == IF i < 0 THEN -i ELSE i

\* int(x) of the quotient a / b, b > 0: the fraction is dropped
TruncDiv(a, b) == IF a >= 0 THEN a \div b ELSE -((-a) \div b)

\* str(v) as an f-string prints it
Str(v) ==
    CASE v.t = "str" -> v.s
      [] v.t = "None" -> "None"
      [] v.t = "int" -> ToString(v.n)
      [] v.t = "float" /\ v.s # "" -> v.s
      [] OTHER -> (IF v.n < 0 THEN "-" ELSE "") \o ToString(Abs(v.n) \div 2)
                     \o (IF v.n % 2 = 0 THEN ".0" ELSE ".5")

\* return <string>
ToolReturns(text) == [result |-> text, caught |-> FALSE, raised |-> FALSE]

\* mutant: the handler lets the exception go
CaughtReraised(prefix, e) == [result |-> "", caught |-> FALSE, raised |-> TRUE]

\* except Exception as e: return f"<prefix>: {str(e)}"
Caught(prefix, e) == [result |-> prefix \o ": " \o e, caught |-> TRUE, raised |-> FALSE]

\* the TypeError of a * b, "" when the product exists
MulError(a, b) ==
    CASE a.t = "None" /\ b.t = "str" ->
            "can't multiply sequence by non-int of type 'NoneType'"
      [] a.t = "None" ->
            "unsupported operand type(s) for *: 'NoneType' and '" \o TypeName(b) \o "'"
      [] a.t = "str" /\ b.t = "int" -> ""
      [] a.t = "str" ->
            "can't multiply sequence by non-int of type '" \o TypeName(b) \o "'"
      [] b.t = "None" ->
            "unsupported operand type(s) for *: '" \o a.t \o "' and 'NoneType'"
      [] b.t = "str" /\ a.t = "float" ->
            "can't multiply sequence by non-int of type 'float'"
      [] OTHER -> ""

\* mutant: the hour is counted from 61 minutes on
calculate_playlist_duration_LateHour(num_songs, avg_song_duration) ==
    IF MulError(num_songs, avg_song_duration) # ""
    THEN Caught("Error calculating duration", MulError(num_songs, avg_song_duration))
    ELSE IF num_songs.t = "str" \/ avg_song_duration.t = "str"
    THEN Caught("Error calculating duration",
                "unsupported operand type(s) for //: 'str' and 'int'")
    ELSE IF ~Finite(num_songs) \/ ~Finite(avg_song_duration)
    THEN Caught("Error calculating duration", "cannot convert float NaN to integer")
    ELSE LET total_quarters == Halves(num_songs) * Halves(avg_song_duration)
             hours == (total_quarters - 4) \div 240
             minutes == (total_quarters % 240) \div 4
         IN  IF hours > 0
             THEN ToolReturns(ToString(hours) \o " hour(s) and " \o ToString(minutes)
                                 \o " minute(s)")
             ELSE ToolReturns(ToString(minutes) \o " minute(s)")

\* agent.py:25-44. total_minutes is held in quarter minutes.
calculate_playlist_duration(num_songs, avg_song_duration) ==
    IF MulError(num_songs, avg_song_duration) # ""
    THEN Caught("Error calculating duration", MulError(num_songs, avg_song_duration))
    ELSE IF num_songs.t = "str" \/ avg_song_duration.t = "str"
    THEN Caught("Error calculating duration",
                "unsupported operand type(s) for //: 'str' and 'int'")
    ELSE IF ~Finite(num_songs) \/ ~Finite(avg_song_duration)
    THEN Caught("Error calculating duration", "cannot convert float NaN to integer")
    ELSE LET total_quarters == Halves(num_songs) * Halves(avg_song_duration)
             hours == total_quarters \div 240
             minutes == (total_quarters % 240) \div 4
         IN  IF hours > 0
             THEN ToolReturns(ToString(hours) \o " hour(s) and " \o ToString(minutes)
                                 \o " minute(s)")
             ELSE ToolReturns(ToString(minutes) \o " minute(s)")

mood_mapping ==
    "happy" :> "upbeat cheerful positive feel-good"
    @@ "sad" :> "melancholic emotional ballad slow"
    @@ "energetic" :> "high-energy fast-paced pumped powerful"
    @@ "calm" :> "relaxing peaceful ambient chill mellow"
    @@ "romantic" :> "love romantic intimate soft"
    @@ "angry" :> "aggressive intense heavy powerful"
    @@ "focused" :> "instrumental concentration deep-focus"
    @@ "nostalgic" :> "throwback classic retro memories"

activity_mapping ==
    "workout" :> "gym training fitness motivation high-tempo"
    @@ "study" :> "concentration focus instrumental background"
    @@ "party" :> "dance celebration upbeat crowd-pleaser"
    @@ "sleep" :> "lullaby sleep ambient soft gentle"
    @@ "driving" :> "road-trip driving cruising"
    @@ "cooking" :> "upbeat background feel-good casual"
    @@ "meditation" :> "zen mindfulness ambient peaceful"
    @@ "work" :> "productivity focus instrumental background"

\* dict.get(key, key)
Get(mapping, key) == IF key \in DOMAIN mapping THEN mapping[key] ELSE key

\* mutant: the input is looked up without .strip()
get_mood_music_keywords_NoStrip(mood, activity) ==
    IF mood.t # "str"
    THEN Caught("Error generating keywords",
                "'" \o TypeName(mood) \o "' object has no attribute 'lower'")
    ELSE IF activity.t # "str"
    THEN Caught("Error generating keywords",
                "'" \o TypeName(activity) \o "' object has no attribute 'lower'")
    ELSE ToolReturns(Get(mood_mapping, Lower(mood.s)) \o " "
                        \o Get(activity_mapping, Lower(activity.s))
                        \o " music songs playlist")

\* agent.py:46-89
get_mood_music_keywords(mood, activity) ==
    IF mood.t # "str"
    THEN Caught("Error generating keywords",
                "'" \o TypeName(mood) \o "' object has no attribute 'lower'")
    ELSE IF activity.t # "str"
    THEN Caught("Error generating keywords",
                "'" \o TypeName(activity) \o "' object has no attribute 'lower'")
    ELSE ToolReturns(Get(mood_mapping, Strip(Lower(mood.s))) \o " "
                        \o Get(activity_mapping, Strip(Lower(activity.s)))
                        \o " music songs playlist")

\* mutant: the quotient is rounded down
suggest_song_count_Floor(duration_minutes) ==
    IF ~IsNumber(duration_minutes)
    THEN Caught("Error calculating song count",
                "unsupported operand type(s) for /: '" \o TypeName(duration_minutes)
                   \o "' and 'float'")
    ELSE IF duration_minutes.s = "inf"
    THEN Caught("Error calculating song count", "cannot convert float infinity to integer")
    ELSE IF duration_minutes.s = "nan"
    THEN Caught("Error calculating song count", "cannot convert float NaN to integer")
    ELSE ToolReturns("For " \o Str(duration_minutes) \o " minutes, suggest approximately "
                        \o ToString(Halves(duration_minutes) \div 7) \o " songs")

\* agent.py:91-105: int(duration_minutes / 3.5)
suggest_song_count(duration_minutes) ==
    IF ~IsNumber(duration_minutes)
    THEN Caught("Error calculating song count",
                "unsupported operand type(s) for /: '" \o TypeName(duration_minutes)
                   \o "' and 'float'")
    ELSE IF duration_minutes.s = "inf"
    THEN Caught("Error calculating song count", "cannot convert float infinity to integer")
    ELSE IF duration_minutes.s = "nan"
    THEN Caught("Error calculating song count", "cannot convert float NaN to integer")
    ELSE ToolReturns("For " \o Str(duration_minutes) \o " minutes, suggest approximately "
                        \o ToString(TruncDiv(Halves(duration_minutes), 7)) \o " songs")

\* agent.py:107-119: formatting None, a string or a number cannot fail
format_playlist_output(playlist_data) ==
    ToolReturns("Formatted Playlist:\n" \o Str(playlist_data))

\* the values a caller can pass
IllTyped == {ArgNone, ArgStr("3")}

NonFinite == {ArgInf, ArgNan}

SongCountArgs == {ArgInt(i) : i \in -MaxSongs..MaxSongs} \cup IllTyped

AvgArgs ==
    {ArgFloat(h) : h \in -MaxAvgHalves..MaxAvgHalves} \cup {ArgInt(3)}
        \cup NonFinite \cup IllTyped

MinuteArgs ==
    {ArgInt(i) : i \in -MaxMinutes..MaxMinutes} \cup {ArgFloat(7), ArgFloat(-1)}
        \cup NonFinite \cup IllTyped

MoodArgs ==
    {ArgStr(x) : x \in {"happy", "sad", "energetic", "calm", "romantic", "angry",
                        "focused", "nostalgic", " HAPPY ", "Sad\n", "sleepy", "workout",
                        "Lo Fi", ""}}
        \cup {ArgNone, ArgInt(3)}

ActivityArgs ==
    {ArgStr(x) : x \in {"workout", "study", "party", "sleep", "driving", "cooking",
                        "meditation", "work", "\tStudy", "WORK ", "Jogging", "happy",
                        "road trip", " "}}
        \cup {ArgNone, ArgInt(3)}

PlaylistArgs == {ArgStr("1. Song A - Artist"), ArgStr(""), ArgNone, ArgInt(3), ArgFloat(7)}

\* the agent calls a tool and holds its result
Call(tool, args, r) ==
    /\ tool_call.tool = "none"
    /\ tool_call' = [tool |-> tool, args |-> args, result |-> r.result,
                     caught |-> r.caught, raised |-> r.raised]
    /\ UNCHANGED <<chat_vars, startup, race_vars>>

CallDuration ==
    \E num_songs \in SongCountArgs, avg_song_duration \in AvgArgs :
        Call("calculate_playlist_duration", <<num_songs, avg_song_duration>>,
             calculate_playlist_duration(num_songs, avg_song_duration))

CallKeywords ==
    \E mood \in MoodArgs, activity \in ActivityArgs :
        Call("get_mood_music_keywords", <<mood, activity>>,
             get_mood_music_keywords(mood, activity))

CallSongCount ==
    \E duration_minutes \in MinuteArgs :
        Call("suggest_song_count", <<duration_minutes>>,
             suggest_song_count(duration_minutes))

CallFormat ==
    \E playlist_data \in PlaylistArgs :
        Call("format_playlist_output", <<playlist_data>>,
             format_playlist_output(playlist_data))

\* the result has gone back to the agent
ToolDone ==
    /\ tool_call.tool # "none"
    /\ tool_call' = NoToolCall
    /\ UNCHANGED <<chat_vars, startup, race_vars>>

NextTools == CallDuration \/ CallKeywords \/ CallSongCount \/ CallFormat \/ ToolDone

SpecTools == Init /\ [][NextTools]_vars

-----------------------------------------------------------------------------
(* Two chat() calls at once: each Streamlit session runs its script in a thread
   of its own (app.py:400-405), and agent.py:269-275 is several bytecode steps on
   the one module-level name. lists is the heap of list objects, chat_history_ref
   the object the global name is bound to, chat_history the contents of it. *)

MaxSpare == 2

Threads == {1, 2}

\* h[-n:]
SliceLast(h, n) == IF Len(h) > n THEN SubSeq(h, Len(h) - n + 1, Len(h)) ELSE h

\* mutant: the cut is made only when one exchange has overshot the cap
NeedsTrimAtTwentyTwo(h) == Len(h) = MaxHistory + 2

\* agent.py:274
NeedsTrim(h) == Len(h) > MaxHistory

\* a transcript that sequential calls have left: whole exchanges, 20 entries at most
OldTranscript(n) ==
    [i \in 1..n |-> IF i % 2 = 1 THEN <<"human", "old">> ELSE <<"assistant", "old">>]

NotCalled == [pc |-> "idle", records |-> FALSE, ref |-> 0, tmp |-> 0]

InitRace ==
    /\ \E spare \in 0..MaxSpare :
          LET h == OldTranscript(MaxHistory - 2 * spare)
          IN  /\ lists = <<h>>
              /\ chat_history = h
              /\ appended = h
              /\ turn_session = [i \in 1..Len(h) |-> 0]
    /\ chat_history_ref = 1
    /\ threads = [t \in Threads |-> NotCalled]
    /\ last_call = NoCall
    /\ last_op = "init"
    /\ cleared = {}
    /\ trimmed = FALSE
    /\ cli_running = FALSE
    /\ cli_line = ""
    /\ cli_chats = <<>>
    /\ messages = [s \in Sessions |-> <<>>]
    /\ startup = Started
    /\ tool_call = NoToolCall

\* the heap and the global name after a step; chat_history follows them
Heap(new_lists, new_ref) ==
    /\ lists' = new_lists
    /\ chat_history_ref' = new_ref
    /\ chat_history' = new_lists[new_ref]
    /\ UNCHANGED <<appended, turn_session, last_call, last_op, cleared, trimmed,
                   cli_running, cli_line, cli_chats, messages, startup, tool_call>>

Goto(t, pc) == threads' = [threads EXCEPT ![t].pc = pc]

\* agent.py:227-266: the call formats the history and invokes the agent; records
\* says whether the test of line 269 will pass
Begin(t) ==
    /\ threads[t].pc = "idle"
    /\ \E records \in BOOLEAN :
          threads' = [threads EXCEPT ![t].records = records,
                         ![t].pc = IF records THEN "load_human" ELSE "load_len"]
    /\ Heap(lists, chat_history_ref)

\* LOAD_GLOBAL chat_history, before each use of the name
LoadGlobal(t) ==
    /\ threads[t].pc \in {"load_human", "load_assistant", "load_len", "load_slice"}
    /\ threads' = [threads EXCEPT ![t].ref = chat_history_ref,
                      ![t].pc = CASE threads[t].pc = "load_human" -> "append_human"
                                  [] threads[t].pc = "load_assistant" -> "append_assistant"
                                  [] threads[t].pc = "load_len" -> "len"
                                  [] OTHER -> "slice"]
    /\ Heap(lists, chat_history_ref)

\* agent.py:270
AppendHuman(t) ==
    /\ threads[t].pc = "append_human"
    /\ Goto(t, "load_assistant")
    /\ Heap([lists EXCEPT ![threads[t].ref] = Append(@, <<"human", ToString(t)>>)],
            chat_history_ref)

\* agent.py:271
AppendAssistant(t) ==
    /\ threads[t].pc = "append_assistant"
    /\ Goto(t, "load_len")
    /\ Heap([lists EXCEPT ![threads[t].ref] = Append(@, <<"assistant", ToString(t)>>)],
            chat_history_ref)

\* agent.py:274: if len(chat_history) > 20
CheckLen(t) ==
    /\ threads[t].pc = "len"
    /\ Goto(t, IF NeedsTrim(lists[threads[t].ref]) THEN "load_slice" ELSE "done")
    /\ Heap(lists, chat_history_ref)

\* agent.py:275, right-hand side: a new list object
Slice(t) ==
    /\ threads[t].pc = "slice"
    /\ threads' = [threads EXCEPT ![t].tmp = Len(lists) + 1, ![t].pc = "store"]
    /\ Heap(Append(lists, SliceLast(lists[threads[t].ref], MaxHistory)), chat_history_ref)

\* agent.py:275, STORE_GLOBAL chat_history, and the return of line 277
Store(t) ==
    /\ threads[t].pc = "store"
    /\ Goto(t, "done")
    /\ Heap(lists, threads[t].tmp)

NextRace ==
    \E t \in Threads :
        \/ Begin(t)
        \/ LoadGlobal(t)
        \/ AppendHuman(t)
        \/ AppendAssistant(t)
        \/ CheckLen(t)
        \/ Slice(t)
        \/ Store(t)

SpecRace == InitRace /\ [][NextRace]_vars

-----------------------------------------------------------------------------
(* Properties *)

\* the step just taken was a call of chat()
IsChatOp(op) == op \in {"chat", "cli_chat", "ui_submit"}

\* the last n entries of h
LastN(h, n) == IF Len(h) > n THEN SubSeq(h, Len(h) - n + 1, Len(h)) ELSE h

\* C1: whatever chat() calls and 'clear' commands the CLI user has issued, the
\* transcript holds at most 20 entries once the call or command has completed.
C1_AtMostTwenty == Len(chat_history) <= 20

\* a chat() call that found 20 entries, added two and cut the list back to 20
C1_Witness ==
    /\ last_op = "cli_chat"
    /\ last_call.recorded
    /\ Len(last_call.formatted_history) = 20
    /\ Len(chat_history) = 20

\* C2: after a chat() call, the transcript is the last 20 of the turns appended
\* since it was last empty, in the order of their appending, and all of them
\* when there are at most 20.
C2_MostRecentTwenty ==
    last_op = "cli_chat" =>
        IF Len(appended) > 20
        THEN /\ Len(chat_history) = 20
             /\ \A i \in 1..20 : chat_history[i] = appended[Len(appended) - 20 + i]
        ELSE chat_history = appended

\* 26 turns appended, the oldest six dropped, and the oldest 20 differ from the kept 20
C2_Witness ==
    /\ last_op = "cli_chat"
    /\ Len(appended) = 26
    /\ chat_history = SubSeq(appended, 7, 26)
    /\ chat_history # SubSeq(appended, 1, 20)

\* C3: a chat() call whose normalized output is non-empty and not the sentinel
\* leaves the transcript ending with (human, user_input), (assistant, output),
\* output being what it returns, and everything before them is what the transcript
\* ended with before the call; any other call leaves the transcript as it was.
C3_RecordsExchange ==
    [][ IsChatOp(last_op') =>
          LET c == last_call'
              n == Len(chat_history')
          IN  IF c.output # "" /\ c.output # "No response generated"
              THEN /\ c.returned = c.output
                   /\ n >= 2
                   /\ chat_history'[n - 1] = <<"human", c.user_input>>
                   /\ chat_history'[n] = <<"assistant", c.output>>
                   /\ SubSeq(chat_history', 1, n - 2) = LastN(chat_history, n - 2)
              ELSE chat_history' = chat_history ]_vars

\* an exchange recorded into a transcript that was already full
C3_Witness ==
    /\ last_op = "cli_chat"
    /\ last_call.recorded
    /\ trimmed
    /\ chat_history[19] = <<"human", last_call.user_input>>
    /\ chat_history[20] = <<"assistant", last_call.returned>>

\* sub occurs in s
Contains(s, sub) ==
    \E i \in 1..(Len(s) - Len(sub) + 1) : SubSeq(s, i, i + Len(sub) - 1) = sub

StartsWith(s, p) == Len(s) >= Len(p) /\ SubSeq(s, 1, Len(p)) = p

\* the last step was a chat() call that reached agent_executor.invoke
Invoked == IsChatOp(last_op) /\ last_call.invoked

\* C4 as stated: chat() never raises to its caller; when the agent invocation
\* raises, a non-empty string embedding the message is returned, and any other
\* failure inside chat() also ends in a returned string.
C4_NeverRaises ==
    IsChatOp(last_op) =>
        /\ last_call.raised = ""
        /\ last_call.returned # ""
        /\ (last_call.invoked /\ last_call.response.kind \in {"exception", "interrupt"}
              => Contains(last_call.returned, last_call.response.text))

\* C4 as amended: no Exception escapes chat(). When the agent invocation raises
\* an Exception, a non-empty string embedding its message is returned; when
\* create_agent() fails inside chat(), a non-empty string is returned; chat()
\* raises only when the invocation raises KeyboardInterrupt.
C4_NoExceptionEscapes ==
    IsChatOp(last_op) =>
        /\ (last_call.raised # "" =>
              last_call.invoked /\ last_call.response.kind = "interrupt")
        /\ (last_call.raised = "" => last_call.returned # "")
        /\ (last_call.invoked /\ last_call.response.kind = "exception" =>
              /\ last_call.raised = ""
              /\ Contains(last_call.returned, last_call.response.text))
        /\ (CreateFails(last_call.agent_executor, "raises") /\ ~last_call.invoked =>
              last_call.raised = "" /\ last_call.returned # "")

\* the invocation raised Exception("boom") and chat() returned a reply naming it
C4_Witness ==
    /\ Invoked
    /\ last_call.response = RaisesException("boom")
    /\ last_call.raised = ""
    /\ Contains(last_call.returned, "boom")

\* C5 as stated: for a mapping-shaped result chat() returns the value of "output"
\* when it is non-empty, and the "didn't get a proper response" fallback when the
\* mapping has no "output" or an empty one.
C5_MappingOutput ==
    Invoked /\ last_call.response.kind = "dict" =>
        IF last_call.response.has_output /\ Truthy(last_call.response.output)
        THEN last_call.returned = last_call.response.output.s
        ELSE last_call.returned =
                "I didn't get a proper response. Could you rephrase your question?"

\* C5 as amended: the value of "output" is returned when it is a non-empty
\* string; a non-empty value that is not a string yields the "having trouble
\* understanding" reply; an absent or empty "output" yields the fallback.
C5_MappingStringOutput ==
    Invoked /\ last_call.response.kind = "dict" =>
        LET r == last_call.response
        IN  IF r.has_output /\ Truthy(r.output)
            THEN IF IsStr(r.output)
                 THEN last_call.returned = r.output.s
                 ELSE last_call.returned =
                        "I'm having trouble understanding. Could you rephrase your question?"
            ELSE last_call.returned =
                    "I didn't get a proper response. Could you rephrase your question?"

\* {"output": "X"} came back and chat() returned "X"
C5_Witness ==
    /\ Invoked
    /\ last_call.response = ReturnsOutput(PyStr("X"))
    /\ last_call.returned = "X"

\* C6 as stated: a None result and an empty result (the empty string) both yield
\* the reply that begins "No response was generated".
C6_MissingOrEmpty ==
    Invoked /\ (\/ last_call.response.kind = "none"
                \/ last_call.response = ReturnsOther("")) =>
        StartsWith(last_call.returned, "No response was generated")

\* C6 as amended: a None result yields "No response was generated. Please try
\* again."; the empty string yields the "having trouble understanding" reply.
C6_MissingThenEmpty ==
    /\ Invoked /\ last_call.response.kind = "none" =>
          last_call.returned = "No response was generated. Please try again."
    /\ Invoked /\ last_call.response = ReturnsOther("") =>
          last_call.returned =
             "I'm having trouble understanding. Could you rephrase your question?"

\* invoke returned None and chat() returned the fixed reply
C6_Witness ==
    /\ Invoked
    /\ last_call.response = ReturnsNone
    /\ StartsWith(last_call.returned, "No response was generated")

\* C7: the chat history passed to the agent for a submission of one UI session
\* holds no turn submitted in, or answered for, another session.
C7_SessionScoped ==
    last_op = "ui_submit" =>
        \A i \in 1..Len(last_call.history_sessions) :
            last_call.history_sessions[i] = last_call.session

\* C8: after 'clear' in any letter case the transcript is empty, and the first
\* chat() call after it passes an empty chat history to the agent, also when
\* earlier calls have cut the transcript back to 20 entries.
C8_ClearEmpties ==
    /\ (cli_running /\ Lower(Strip(cli_line)) = "clear") =>
          last_op = "cli_clear" /\ chat_history = <<>>
    /\ (last_op = "cli_chat" /\ last_call.after_clear) =>
          last_call.formatted_history = <<>>

\* the first chat() call after a 'clear' that followed a trimmed transcript
C8_Witness ==
    /\ last_op = "cli_chat"
    /\ last_call.after_clear
    /\ trimmed
    /\ last_call.invoked
    /\ last_call.formatted_history = <<>>

\* C9: the first submission of a UI session after its Clear History button was
\* pressed passes an empty chat history to the agent.
C9_ClearHistoryEmpties ==
    (last_op = "ui_submit" /\ last_call.after_clear) =>
        last_call.formatted_history = <<>>

\* C10: a line that is empty after trimming, or whose trimmed lower-cased text is
\* history, clear, quit, exit or q, causes no chat() call and no agent invocation;
\* any other line causes exactly one chat() call, with the trimmed line.
C10_ReservedNeverChat ==
    last_op \in {"cli_empty", "cli_quit", "cli_history", "cli_clear", "cli_chat"} =>
        LET u == Strip(cli_line)
        IN  IF u = "" \/ Lower(u) \in {"history", "clear", "quit", "exit", "q"}
            THEN cli_chats = <<>> /\ last_op # "cli_chat"
            ELSE /\ Len(cli_chats) = 1
                 /\ cli_chats[1].user_input = u
                 /\ last_op = "cli_chat"
                 /\ last_call.user_input = u

\* " play jazz " was read and chat("play jazz", agent) was called once
C10_Witness ==
    /\ last_op = "cli_chat"
    /\ cli_line = " play jazz "
    /\ cli_chats = <<[user_input |-> "play jazz", invoked |-> TRUE]>>

\* a required key is absent from the environment
AKeyIsAbsent == ~startup.groq \/ ~startup.tavily

\* C11: with a required key absent, the program ends with a non-zero
\* exit status before any agent is constructed and before any input is processed.
C11_FatalWithoutKeys ==
    AKeyIsAbsent =>
        /\ ~startup.create_called
        /\ ~startup.agent_built
        /\ last_op = "init"
        /\ startup.pc \in {"check_groq", "check_tavily", "page", "exited"}
        /\ (startup.pc = "exited" => startup.exit_status > 0)

\* The CLI program alone: with a key absent it exits with status 1 before
\* create_agent() is called and before a line is read.
CliFatalWithoutKeys ==
    (startup.program = "cli" /\ AKeyIsAbsent) =>
        /\ ~startup.create_called
        /\ ~startup.agent_built
        /\ last_op = "init"
        /\ startup.pc \in {"check_groq", "check_tavily", "exited"}
        /\ (startup.pc = "exited" => startup.exit_status = 1)

\* the tool call in progress
Calling(tool) == tool_call.tool = tool

KnownMoods ==
    {"happy", "sad", "energetic", "calm", "romantic", "angry", "focused", "nostalgic"}

KnownActivities ==
    {"workout", "study", "party", "sleep", "driving", "cooking", "meditation", "work"}

\* C12: for strings mood and activity, get_mood_music_keywords returns
\* "{M} {A} music songs playlist": M is the mood table's entry for the lower-cased,
\* trimmed mood when that is one of the 8 mood keys and the lower-cased, trimmed
\* mood itself otherwise; A comes the same way from the activity table, and
\* neither depends on the other argument.
C12_KeywordString ==
    (Calling("get_mood_music_keywords") /\ tool_call.args[1].t = "str"
        /\ tool_call.args[2].t = "str") =>
        LET mood == Strip(Lower(tool_call.args[1].s))
            activity == Strip(Lower(tool_call.args[2].s))
            M == IF mood \in KnownMoods THEN mood_mapping[mood] ELSE mood
            A == IF activity \in KnownActivities THEN activity_mapping[activity]
                 ELSE activity
        IN  /\ DOMAIN mood_mapping = KnownMoods
            /\ DOMAIN activity_mapping = KnownActivities
            /\ tool_call.result = M \o " " \o A \o " music songs playlist"
            /\ ~tool_call.raised

\* a known mood in capitals and spaces met an unknown activity
C12_Witness ==
    /\ Calling("get_mood_music_keywords")
    /\ tool_call.args = <<ArgStr(" HAPPY "), ArgStr("Jogging")>>
    /\ tool_call.result = "upbeat cheerful positive feel-good jogging music songs playlist"

\* C13: for an integer song count and a finite average duration,
\* calculate_playlist_duration takes total = count x average, hours = floor(total/60)
\* and minutes = floor(total mod 60), and returns "{hours} hour(s) and {minutes}
\* minute(s)" when hours > 0 and "{minutes} minute(s)" otherwise; (20, 3.5) gives
\* "1 hour(s) and 10 minute(s)" and (10, 3.5) gives "35 minute(s)". total4 is the
\* total in quarter minutes.
C13_DurationString ==
    (Calling("calculate_playlist_duration") /\ tool_call.args[1].t = "int"
        /\ Finite(tool_call.args[2])) =>
        LET total4 == 2 * tool_call.args[1].n * Halves(tool_call.args[2])
        IN  /\ \E hours \in -(4 * MaxSongs)..(4 * MaxSongs), minutes \in 0..59 :
                  /\ 240 * hours <= total4
                  /\ total4 < 240 * (hours + 1)
                  /\ 4 * minutes <= total4 - 240 * hours
                  /\ total4 - 240 * hours < 4 * (minutes + 1)
                  /\ tool_call.result =
                        IF hours > 0
                        THEN ToString(hours) \o " hour(s) and " \o ToString(minutes)
                                \o " minute(s)"
                        ELSE ToString(minutes) \o " minute(s)"
            /\ (tool_call.args = <<ArgInt(20), ArgFloat(7)>>
                   => tool_call.result = "1 hour(s) and 10 minute(s)")
            /\ (tool_call.args = <<ArgInt(10), ArgFloat(7)>>
                   => tool_call.result = "35 minute(s)")

\* twenty songs of three and a half minutes
C13_Witness ==
    /\ Calling("calculate_playlist_duration")
    /\ tool_call.args = <<ArgInt(20), ArgFloat(7)>>
    /\ tool_call.result = "1 hour(s) and 10 minute(s)"

\* C14 as stated: for every integer d, zero and negative included,
\* suggest_song_count returns "For {d} minutes, suggest approximately {s} songs"
\* with s = floor(d / 3.5); 60 gives 17.
C14_FloorCount ==
    (Calling("suggest_song_count") /\ tool_call.args[1].t = "int") =>
        LET d == tool_call.args[1].n
        IN  \E s \in -MaxMinutes..MaxMinutes :
               /\ 7 * s <= 2 * d
               /\ 2 * d < 7 * (s + 1)
               /\ tool_call.result = "For " \o ToString(d)
                     \o " minutes, suggest approximately " \o ToString(s) \o " songs"

\* C14 as amended: s is d / 3.5 with its fraction dropped, which is floor(d / 3.5)
\* for d >= 0 and the ceiling for d < 0; 60 gives 17.
C14_TruncatedCount ==
    (Calling("suggest_song_count") /\ tool_call.args[1].t = "int") =>
        LET d == tool_call.args[1].n
        IN  /\ \E s \in -MaxMinutes..MaxMinutes :
                  /\ IF d >= 0
                     THEN 7 * s <= 2 * d /\ 2 * d < 7 * (s + 1)
                     ELSE 7 * (s - 1) < 2 * d /\ 2 * d <= 7 * s
                  /\ tool_call.result = "For " \o ToString(d)
                        \o " minutes, suggest approximately " \o ToString(s) \o " songs"
            /\ (d = 60 => tool_call.result
                             = "For 60 minutes, suggest approximately 17 songs")

\* minus one minute: the quotient -0.28... becomes 0, not -1
C14_Witness ==
    /\ Calling("suggest_song_count")
    /\ tool_call.args = <<ArgInt(-1)>>
    /\ tool_call.result = "For -1 minutes, suggest approximately 0 songs"

\* C15: each of the four tools returns a string for every argument value and
\* never raises; an error inside it comes back as a string beginning with "Error".
C15_ToolsNeverRaise ==
    ~Calling("none") =>
        /\ tool_call.tool \in {"calculate_playlist_duration", "get_mood_music_keywords",
                               "suggest_song_count", "format_playlist_output"}
        /\ ~tool_call.raised
        /\ tool_call.result \in STRING
        /\ tool_call.result # ""
        /\ (tool_call.caught => StartsWith(tool_call.result, "Error"))
        /\ (\E i \in DOMAIN tool_call.args :
               /\ ~Calling("format_playlist_output")
               /\ \/ tool_call.args[i].t = "None"
                  \/ tool_call.args[i] \in NonFinite)
              => tool_call.caught

\* None for the song count: the TypeError came back as a string
C15_Witness ==
    /\ Calling("calculate_playlist_duration")
    /\ tool_call.args = <<ArgNone, ArgFloat(7)>>
    /\ tool_call.caught
    /\ StartsWith(tool_call.result, "Error calculating duration: unsupported operand")
    /\ ~tool_call.raised

\* the entries of h that become messages
Kept(h) ==
    SelectSeq(h, LAMBDA e : /\ Len(e) = 2
                            /\ \/ e[1] = "human"
                               \/ e[1] = "assistant" /\ e[2] # "")

\* one message per kept entry, in the order of h
ExpectedHistory(h) ==
    [i \in 1..Len(Kept(h)) |->
        [type |-> IF Kept(h)[i][1] = "human" THEN "HumanMessage" ELSE "AIMessage",
         content |-> Kept(h)[i][2]]]

\* C16: the chat history given to the agent is built from the transcript as it was
\* before the exchange, in its order: one message per human turn and per assistant
\* turn with non-empty string content; assistant turns with empty content are
\* left out, and a tuple that is not a pair or has an unknown role is skipped,
\* the conversion and the exchange going on.
C16_FormattedHistory ==
    [][IsChatOp(last_op') =>
          /\ last_call'.formatted_history = ExpectedHistory(chat_history)
          /\ (last_call'.agent_executor = "executor" =>
                 /\ last_call'.invoked
                 /\ ~last_call'.outer_error)]_vars

\* chat() met an unknown role, a human turn and an empty assistant turn, passed
\* the human turn alone to the agent and recorded the new exchange behind them
C16_Witness ==
    /\ IsChatOp(last_op)
    /\ last_call.invoked
    /\ last_call.recorded
    /\ Len(chat_history) = 5
    /\ SubSeq(chat_history, 1, 3)
          = << <<"system", "s">>, <<"human", "hi">>, <<"assistant", "">> >>
    /\ last_call.formatted_history = <<[type |-> "HumanMessage", content |-> "hi"]>>

\* C17: starting from an empty transcript, after any sequence of chat() calls and
\* 'clear' commands made one after the other, the transcript has even length and
\* its roles go human, assistant, human, assistant, ... from a human turn on; the
\* cut to the last 20 entries drops whole exchanges only, so every human turn kept
\* is followed by the assistant turn appended with it.
C17_WholeExchanges ==
    LET n == Len(chat_history)
        dropped == Len(appended) - n
    IN  /\ n % 2 = 0
        /\ \A i \in 1..n :
              /\ Len(chat_history[i]) = 2
              /\ chat_history[i][1] = IF i % 2 = 1 THEN "human" ELSE "assistant"
        /\ dropped >= 0
        /\ dropped % 2 = 0
        /\ \A i \in 1..n : chat_history[i] = appended[dropped + i]

\* the eleventh exchange pushed the first one out, both of its turns
C17_Witness ==
    /\ last_op = "cli_chat"
    /\ trimmed
    /\ Len(appended) = 22
    /\ Len(chat_history) = 20
    /\ chat_history[1] = appended[3]
    /\ chat_history[1][1] = "human"
    /\ chat_history[20][1] = "assistant"

Fallbacks == {FallbackNone, FallbackDict, FallbackTrouble}

\* the transcript ends with the exchange of call c
EndsWithExchange(h, c) ==
    /\ Len(h) >= 2
    /\ h[Len(h) - 1] = <<"human", c.user_input>>
    /\ h[Len(h)] = <<"assistant", c.output>>

\* C18 as stated: when the agent invocation raises or yields a fallback message,
\* the exchange is still recorded: the transcript ends with (human, user_input),
\* (assistant, the error or fallback string).
C18_FailuresRecorded ==
    (Invoked /\ \/ last_call.response.kind \in {"exception", "interrupt"}
                \/ last_call.output \in Fallbacks) =>
        /\ last_call.recorded
        /\ last_call.output # ""
        /\ EndsWithExchange(chat_history, last_call)

\* C18 as amended: when the agent invocation raises an Exception (not a
\* KeyboardInterrupt) or yields a fallback message, the transcript gains
\* (human, user_input), (assistant, the error or fallback string), and the chat()
\* call that follows passes that string to the agent as the last message of its
\* chat history.
C18_ExceptionsRecorded ==
    [][ /\ (IsChatOp(last_op') /\ last_call'.invoked
              /\ \/ last_call'.response.kind = "exception"
                 \/ last_call'.output \in Fallbacks) =>
                /\ last_call'.recorded
                /\ last_call'.output # ""
                /\ EndsWithExchange(chat_history', last_call')
        /\ (IsChatOp(last_op) /\ last_call.invoked /\ IsChatOp(last_op')
              /\ \/ last_call.response.kind = "exception"
                 \/ last_call.output \in Fallbacks) =>
                LET f == last_call'.formatted_history
                IN  /\ Len(f) >= 2
                    /\ f[Len(f) - 1] = [type |-> "HumanMessage",
                                        content |-> last_call.user_input]
                    /\ f[Len(f)] = [type |-> "AIMessage", content |-> last_call.output]
      ]_vars

\* a call whose invocation raised Exception("boom") was followed by a call that
\* gave the agent the reply to that exception as history
C18_Witness ==
    /\ Invoked
    /\ Len(last_call.formatted_history) = 2
    /\ last_call.formatted_history[1] = [type |-> "HumanMessage", content |-> "play jazz"]
    /\ last_call.formatted_history[2] = [type |-> "AIMessage", content |-> ErrorOutput("boom")]

\* both calls have returned
BothReturned == \A t \in Threads : threads[t].pc = "done"

\* C19: when two chat() calls overlap on the one module-level transcript, their
\* append, length-check and slice-and-rebind steps interleaved in any order, the
\* transcript holds at most 20 entries once both calls have returned.
C19_AtMostTwentyAfterRace ==
    /\ chat_history = lists[chat_history_ref]
    /\ BothReturned => Len(chat_history) <= 20

\* both calls recorded and both cut the list; the slice of call 1 was bound last,
\* taken after call 2 had appended its human turn and before its assistant turn,
\* so the transcript ends with a human turn whose answer is lost
C19_Witness ==
    /\ BothReturned
    /\ \A t \in Threads : threads[t].records /\ threads[t].tmp # 0
    /\ chat_history_ref = threads[1].tmp
    /\ Len(chat_history) = 20
    /\ chat_history[20] = <<"human", "2">>

====
